---- MODULE Spec2Model ----
(***************************************************************************)
(* Model of the LiDAR point-cloud viewer (main.py, settings.py): the run   *)
(* sequence of main() and the functions it calls.  Coordinates, heights    *)
(* and pixel values are integers; a float produced by a division (a mean,  *)
(* a centred coordinate) is an exact fraction [num, den].                  *)
(* Python indices are 0-based: the array element a[i] is At(a, i).         *)
(***************************************************************************)
EXTENDS Integers, Sequences, FiniteSets, TLC

VARIABLES
    settings,           \* the module settings.py, fixed during a run
    RASTERIO_AVAILABLE, \* main.py:19-25, whether rasterio could be imported
    las_file,           \* what is on disk at settings.LAZ_FILE_PATH
    ortho_file,         \* what is on disk at settings.ORTHO_FILE_PATH
    pc,                 \* position of the run in main() / in a direct call
    las,                \* local of main: the loaded point cloud
    ortho_data,         \* local of main: the loaded orthophoto or None
    available_indices,  \* local of main: result of step 3
    indices,            \* local of main: result of step 4
    call,               \* what the last call of prepare_point_cloud_data did
    data,               \* local of main: the prepared dataset
    fig,                \* local of main: the figure handed to plotly
    error,              \* the exception main() caught, "none" when none
    completed           \* main printed "PROCESO COMPLETADO EXITOSAMENTE"

vars == <<settings, RASTERIO_AVAILABLE, las_file, ortho_file, pc, las,
          ortho_data, available_indices, indices, call, data, fig, error,
          completed>>

(***************************************************************************)
(* Bounds of the model.                                                    *)
(***************************************************************************)
MaxPoints == 3      \* points in a cloud whose x, y and colours vary
MaxPointsZ == 3     \* points in a cloud whose z and classification vary
MaxLimit == 2       \* settings.MAX_POINTS_VISUALIZATION is None or in 0..MaxLimit

Xs == {0, 1}                        \* world x of a point
Ys == {0, 1}                        \* world y of a point
Zs == {10, 12}                      \* world z of a point
Classes == {2, 3}                   \* LAS classification codes in a cloud
Intensities == {7}                  \* LAS intensity values in a cloud
Colors16 == {<<0, 0, 0>>, <<65535, 32768, 257>>}     \* embedded 16-bit colours
Pixels == {<<0, 0, 0>>, <<0, 20, 30>>, <<128, 128, 128>>}  \* raster pixels
Shapes == {<<2, 1>>, <<1, 2>>}      \* raster <<width, height>>

(***************************************************************************)
(* Program constants (settings.py).                                        *)
(***************************************************************************)
GROUND_CLASS == 2
RGB_MAX_VALUE == 65535
VEGETATION_CLASSES == {3, 4, 5}
HEIGHT_COLORMAP == "Earth"

(***************************************************************************)
(* Values.                                                                 *)
(***************************************************************************)
None == [kind |-> "None"]
IsNone(v) == v.kind = "None"
Some(v) == [kind |-> "some", v |-> v]
Gray == <<128, 128, 128>>

Rat(n, d) == [num |-> n, den |-> d]
RatEq(p, q) == p.num * q.den = q.num * p.den
RatSub(p, q) == Rat(p.num * q.den - q.num * p.den, p.den * q.den)
NaN == [num |-> 0, den |-> 0]      \* numpy's mean of an empty array

At(a, i) == a[i + 1]
Range(s) == {s[i] : i \in DOMAIN s}
Take(a, idx) == [i \in 1..Len(idx) |-> At(a, idx[i])]   \* numpy's a[idx]

RECURSIVE SumSeq(_)
SumSeq(s) == IF s = <<>> THEN 0 ELSE Head(s) + SumSeq(Tail(s))

MinOf(S) == CHOOSE m \in S : \A v \in S : m <= v

\* math.floor(n / d) for a divisor of either sign
FloorDiv(n, d) == IF d > 0 THEN n \div d ELSE (0 - n) \div (0 - d)

Arange(n) == [i \in 1..n |-> i - 1]                     \* np.arange(n)

(***************************************************************************)
(* load_las_file and load_orthophoto (main.py:31-90, 155-208).             *)
(***************************************************************************)
\* LoadRaises when only a missing file raises
LoadRaises_MissingOnly(file) == file.kind = "missing"

\* laspy.read raises on an unreadable file; the statistics of lines 183-185
\* (np.min of an empty array) raise on a file with no points
LoadRaises(file) == file.kind = "unreadable" \/ file.n = 0

load_orthophoto(file) ==
    IF ~RASTERIO_AVAILABLE THEN None
    ELSE IF file.kind = "missing" THEN None
    ELSE IF file.kind = "corrupt" THEN None      \* except Exception: return None
    ELSE file

(***************************************************************************)
(* sample_rgb_from_orthophoto (main.py:93-152).                            *)
(***************************************************************************)
\* rasterio.transform.rowcol: the inverse of x = a*col + b*row + c,
\* y = d*col + e*row + f, floored; raises when the transform has no inverse
rowcol(t, x, y) ==
    LET det == t.a * t.e - t.b * t.d
    IN  IF det = 0
        THEN [raised |-> TRUE, row |-> 0, col |-> 0]
        ELSE [raised |-> FALSE,
              row |-> FloorDiv(t.a * (y - t.f) - t.d * (x - t.c), det),
              col |-> FloorDiv(t.e * (x - t.c) - t.b * (y - t.f), det)]

\* SampleOne with the no-data test "r == 0 or g == 0 or b == 0"
SampleOne_AnyZero(x, y, ortho) ==
    LET rc == rowcol(ortho.transform, x, y)
    IN  IF rc.raised
        THEN [color |-> Gray, valid |-> FALSE]
        ELSE IF 0 <= rc.row /\ rc.row < ortho.height
                /\ 0 <= rc.col /\ rc.col < ortho.width
        THEN LET r == At(At(ortho.red, rc.row), rc.col)
                 g == At(At(ortho.green, rc.row), rc.col)
                 b == At(At(ortho.blue, rc.row), rc.col)
             IN  IF ~(r = 0 \/ g = 0 \/ b = 0)
                 THEN [color |-> <<r, g, b>>, valid |-> TRUE]
                 ELSE [color |-> Gray, valid |-> FALSE]
        ELSE [color |-> Gray, valid |-> FALSE]

\* the body of the loop, lines 118-141: the colour of one point and whether
\* it counted as valid
SampleOne(x, y, ortho) ==
    LET rc == rowcol(ortho.transform, x, y)
    IN  IF rc.raised
        THEN [color |-> Gray, valid |-> FALSE]
        ELSE IF 0 <= rc.row /\ rc.row < ortho.height
                /\ 0 <= rc.col /\ rc.col < ortho.width
        THEN LET r == At(At(ortho.red, rc.row), rc.col)
                 g == At(At(ortho.green, rc.row), rc.col)
                 b == At(At(ortho.blue, rc.row), rc.col)
             IN  IF ~(r = 0 /\ g = 0 /\ b = 0)
                 THEN [color |-> <<r, g, b>>, valid |-> TRUE]
                 ELSE [color |-> Gray, valid |-> FALSE]
        ELSE [color |-> Gray, valid |-> FALSE]

\* the whole call: line 149 divides by len(x_coords)
sample_rgb_from_orthophoto(x_coords, y_coords, ortho) ==
    LET n == Len(x_coords)
        one(i) == SampleOne(x_coords[i], y_coords[i], ortho)
        rgb_colors == [i \in 1..n |-> one(i).color]
        valid_colors == Cardinality({i \in 1..n : one(i).valid})
    IN  [raised |-> n = 0,
         exc |-> IF n = 0 THEN "ZeroDivisionError" ELSE "none",
         rgb_colors |-> rgb_colors,
         valid_colors |-> valid_colors]

(***************************************************************************)
(* filter_points_by_classification and sample_points (main.py:211-257).    *)
(***************************************************************************)
\* filter_points_by_classification with the mask inverted
filter_points_by_classification_Inverted(las_, classes_to_keep) ==
    IF ~las_.has_classification
    THEN Arange(las_.n)
    ELSE SelectSeq(Arange(las_.n),
                   LAMBDA i : At(las_.classification, i) \notin classes_to_keep)

filter_points_by_classification(las_, classes_to_keep) ==
    IF ~las_.has_classification
    THEN Arange(las_.n)
    ELSE SelectSeq(Arange(las_.n),
                   LAMBDA i : At(las_.classification, i) \in classes_to_keep)

\* np.random.choice with replace=True
Choice_WithReplacement(total_indices, k) ==
    LET n == Len(total_indices)
    IN  {[i \in 1..k |-> total_indices[p[i]]] : p \in [1..k -> 1..n]}

\* np.random.choice(total_indices, k, replace=False): k distinct positions of
\* total_indices, in any order
Choice(total_indices, k) ==
    LET n == Len(total_indices)
        picks == {p \in [1..k -> 1..n] : \A i, j \in 1..k : i # j => p[i] # p[j]}
    IN  {[i \in 1..k |-> total_indices[p[i]]] : p \in picks}

\* the set of arrays the call may return
sample_points(total_indices, max_points) ==
    IF IsNone(max_points) \/ Len(total_indices) <= max_points.v
    THEN {total_indices}
    ELSE Choice(total_indices, max_points.v)

(***************************************************************************)
(* prepare_point_cloud_data (main.py:260-367), piece by piece.             *)
(***************************************************************************)
\* GroundElevation taking the lowest z of all points, ground or not
GroundElevation_AllPoints(las_) ==
    IF settings.NORMALIZE_HEIGHT /\ las_.has_classification
    THEN LET ground_points ==
                 {i \in 1..las_.n : las_.classification[i] = GROUND_CLASS}
         IN  IF Cardinality(ground_points) > 0
             THEN MinOf({las_.z[i] : i \in 1..las_.n})
             ELSE 0
    ELSE 0

\* GroundElevation taking the lowest z of the selected ground points only,
\* 0 when no ground point is selected
GroundElevation_Selected(las_) ==
    IF settings.NORMALIZE_HEIGHT /\ las_.has_classification
    THEN LET ground_points ==
                 {i \in 1..Len(indices) :
                     At(las_.classification, indices[i]) = GROUND_CLASS}
         IN  IF Cardinality(ground_points) > 0
             THEN MinOf({At(las_.z, indices[i]) : i \in ground_points})
             ELSE 0
    ELSE 0

\* lines 282-286: the elevation subtracted from z, 0 when nothing is
GroundElevation(las_) ==
    IF settings.NORMALIZE_HEIGHT /\ las_.has_classification
    THEN LET ground_points ==
                 {i \in 1..las_.n : las_.classification[i] = GROUND_CLASS}
         IN  IF Cardinality(ground_points) > 0
             THEN MinOf({las_.z[i] : i \in ground_points})
             ELSE 0
    ELSE 0

\* lines 279-287: z of the selected points after the normalization
NormalizedZ(las_, indices_) ==
    LET z == Take(las_.z, indices_)
    IN  [i \in 1..Len(indices_) |-> z[i] - GroundElevation(las_)]

\* ColorArray taking z as it was read, before the normalization
ColorArray_Raw(las_, indices_) == Take(las_.z, indices_)

\* line 316: the scalar mapped to colour is z, which line 287 has rebound
\* to the normalized heights by then
ColorArray(las_, indices_) == NormalizedZ(las_, indices_)

\* ColorSource with the embedded RGB tried before the raster
ColorSource_EmbeddedFirst(las_, ortho_data_) ==
    IF las_.has_rgb THEN "RGB en LAS"
    ELSE IF ~IsNone(ortho_data_) /\ RASTERIO_AVAILABLE THEN "ortofotografia"
    ELSE "altura"

\* lines 295-318: which branch colours the points
ColorSource(las_, ortho_data_) ==
    IF ~IsNone(ortho_data_) /\ RASTERIO_AVAILABLE THEN "ortofotografia"
    ELSE IF las_.has_rgb THEN "RGB en LAS"
    ELSE "altura"

\* ResolverArgs taken after the centering (rounded down to whole units)
ResolverArgs_Centered(las_, indices_) ==
    LET xs == Take(las_.x, indices_)
        ys == Take(las_.y, indices_)
        n == Len(indices_)
    IN  IF settings.CENTER_COORDINATES /\ n > 0
        THEN [x |-> [i \in 1..n |-> FloorDiv(n * xs[i] - SumSeq(xs), n)],
              y |-> [i \in 1..n |-> FloorDiv(n * ys[i] - SumSeq(ys), n)]]
        ELSE [x |-> xs, y |-> ys]

\* line 300: the coordinates handed to sample_rgb_from_orthophoto
ResolverArgs(las_, indices_) ==
    [x |-> Take(las_.x, indices_), y |-> Take(las_.y, indices_)]

\* lines 306-308: (channel / RGB_MAX_VALUE * 255).astype(int)
Scale8(v) == (v * 255) \div RGB_MAX_VALUE

\* lines 306-309
EmbeddedColors(las_, indices_) ==
    LET r == Take(las_.red, indices_)
        g == Take(las_.green, indices_)
        b == Take(las_.blue, indices_)
    IN  [i \in 1..Len(indices_) |-> <<Scale8(r[i]), Scale8(g[i]), Scale8(b[i])>>]

\* np.mean
Mean(xs) == IF Len(xs) = 0 THEN NaN ELSE Rat(SumSeq(xs), Len(xs))

\* Center taking the first coordinate instead of the mean
Center_First(xs) ==
    IF settings.CENTER_COORDINATES
    THEN IF Len(xs) = 0 THEN NaN ELSE Rat(xs[1], 1)
    ELSE Rat(0, 1)

\* lines 324-329: x_center, y_center
Center(xs) == IF settings.CENTER_COORDINATES THEN Mean(xs) ELSE Rat(0, 1)

\* lines 322-331: the coordinates placed in the dataset
Centered(xs) ==
    IF settings.CENTER_COORDINATES
    THEN [i \in 1..Len(xs) |-> RatSub(Rat(xs[i], 1), Center(xs))]
    ELSE [i \in 1..Len(xs) |-> Rat(xs[i], 1)]

\* the format ":.2f": a fraction rounded to hundredths, ties to even
Fmt2(r) ==
    LET q == 100 * r.num
        lo == FloorDiv(q, r.den)
        rem2 == 2 * (q - lo * r.den)
        d == IF r.den > 0 THEN r.den ELSE 0 - r.den
    IN  IF rem2 < d THEN lo
        ELSE IF rem2 > d THEN lo + 1
        ELSE IF lo % 2 = 0 THEN lo ELSE lo + 1

\* lines 336-346: one text per selected point; an absent attribute adds
\* no field
HoverText(las_, indices_, x, y, z) ==
    [i \in 1..Len(indices_) |->
        [X |-> Fmt2(x[i]), Y |-> Fmt2(y[i]), Z |-> Fmt2(Rat(z[i], 1)),
         Clase |-> IF las_.has_classification
                   THEN <<At(las_.classification, indices_[i])>> ELSE <<>>,
         Intensidad |-> IF las_.has_intensity
                        THEN <<At(las_.intensity, indices_[i])>> ELSE <<>>]]

\* lines 363-365: np.min and np.max of an empty array raise ValueError
StatsRaise(indices_) == Len(indices_) = 0

\* the whole call: what it returns or raises, and the locals it computed
prepare_point_cloud_data(las_, indices_, ortho_data_) ==
    LET x_original == Take(las_.x, indices_)
        y_original == Take(las_.y, indices_)
        z == NormalizedZ(las_, indices_)
        color_source == ColorSource(las_, ortho_data_)
        args == ResolverArgs(las_, indices_)
        sampled == IF color_source = "ortofotografia"
                   THEN sample_rgb_from_orthophoto(args.x, args.y, ortho_data_)
                   ELSE [raised |-> FALSE, exc |-> "none",
                         rgb_colors |-> <<>>, valid_colors |-> 0]
        colors == IF color_source = "ortofotografia" THEN Some(sampled.rgb_colors)
                  ELSE IF color_source = "RGB en LAS"
                       THEN Some(EmbeddedColors(las_, indices_))
                       ELSE None
        color_array == IF color_source = "altura"
                       THEN Some(ColorArray(las_, indices_)) ELSE None
        colorscale == IF color_source = "altura" THEN Some(HEIGHT_COLORMAP) ELSE None
        x == Centered(x_original)
        y == Centered(y_original)
        exc == IF sampled.raised THEN sampled.exc
               ELSE IF StatsRaise(indices_) THEN "ValueError"
               ELSE "none"
    IN  [kind |-> "call",
         raised |-> exc # "none",
         exc |-> exc,
         resolver |-> [called |-> color_source = "ortofotografia",
                       x |-> IF color_source = "ortofotografia" THEN args.x ELSE <<>>,
                       y |-> IF color_source = "ortofotografia" THEN args.y ELSE <<>>,
                       valid_colors |-> sampled.valid_colors],
         ground_elevation |-> GroundElevation(las_),
         x_center |-> IF sampled.raised THEN Rat(0, 1) ELSE Center(x_original),
         y_center |-> IF sampled.raised THEN Rat(0, 1) ELSE Center(y_original),
         data |-> IF exc # "none" THEN None
                  ELSE [kind |-> "data",
                        x |-> x,
                        y |-> y,
                        z |-> z,
                        colors |-> colors,
                        color_array |-> color_array,
                        colorscale |-> colorscale,
                        hover_text |-> HoverText(las_, indices_, x, y, z),
                        num_points |-> Len(indices_),
                        color_source |-> color_source]]

\* create_plotly_figure (main.py:370-437): what the marker is given
create_plotly_figure(data_) ==
    [kind |-> "figure",
     x |-> data_.x, y |-> data_.y, z |-> data_.z,
     color |-> IF ~IsNone(data_.colors) THEN data_.colors ELSE data_.color_array,
     colorscale |-> IF ~IsNone(data_.color_array) THEN data_.colorscale ELSE None,
     showscale |-> ~IsNone(data_.color_array),
     text |-> data_.hover_text]

(***************************************************************************)
(* The inputs of a run: the two files on disk and the settings.            *)
(***************************************************************************)
Cloud(n, x, y, z, has_c, c, has_rgb, rgb, has_i, inten) ==
    [kind |-> "las", n |-> n, x |-> x, y |-> y, z |-> z,
     has_classification |-> has_c,
     classification |-> IF has_c THEN c ELSE <<>>,
     has_rgb |-> has_rgb,
     red |-> IF has_rgb THEN [i \in 1..n |-> rgb[i][1]] ELSE <<>>,
     green |-> IF has_rgb THEN [i \in 1..n |-> rgb[i][2]] ELSE <<>>,
     blue |-> IF has_rgb THEN [i \in 1..n |-> rgb[i][3]] ELSE <<>>,
     has_intensity |-> has_i,
     intensity |-> IF has_i THEN inten ELSE <<>>]

DefX(n) == [i \in 1..n |-> (i - 1) % 2]
DefY(n) == [i \in 1..n |-> 1]
DefZ(n) == [i \in 1..n |-> IF i = 1 THEN 12 ELSE 8 + 2 * i]
DefC(n) == [i \in 1..n |-> IF i <= 2 THEN GROUND_CLASS ELSE 3]
DefRGB(n) == [i \in 1..n |-> <<65535, 32768, 257>>]

\* clouds whose planimetry varies (they carry embedded colours too)
CloudsXY ==
    UNION {{Cloud(n, x, y, DefZ(n), TRUE, DefC(n), TRUE, DefRGB(n), FALSE, <<>>) :
               x \in [1..n -> Xs], y \in [1..n -> Ys]} :
           n \in 1..MaxPoints}

\* clouds whose heights and classification vary
CloudsZ ==
    UNION {{Cloud(n, DefX(n), DefY(n), z, has_c, c, FALSE, <<>>, FALSE, <<>>) :
               z \in [1..n -> Zs], c \in [1..n -> Classes], has_c \in {TRUE}} :
           n \in 1..MaxPointsZ}
    \cup
    UNION {{Cloud(n, DefX(n), DefY(n), z, FALSE, <<>>, FALSE, <<>>, FALSE, <<>>) :
               z \in [1..n -> Zs]} :
           n \in 1..MaxPointsZ}

\* clouds whose embedded colours and optional attributes vary
CloudsRGB ==
    UNION {{Cloud(n, DefX(n), DefY(n), DefZ(n), has_c, DefC(n), TRUE, rgb, has_i, inten) :
               rgb \in [1..n -> Colors16], has_c \in BOOLEAN,
               has_i \in BOOLEAN, inten \in [1..n -> Intensities]} :
           n \in 1..MaxPoints}

NoPoints == Cloud(0, <<>>, <<>>, <<>>, FALSE, <<>>, FALSE, <<>>, FALSE, <<>>)
Unreadable == [NoPoints EXCEPT !.kind = "unreadable"]   \* laspy.read raises
MissingLas == [NoPoints EXCEPT !.kind = "missing"]      \* FileNotFoundError

Transforms ==
    {[a |-> 1, b |-> 0, c |-> 0, d |-> 0, e |-> 0 - 1, f |-> 1],    \* north-up
     [a |-> 2, b |-> 0, c |-> 0, d |-> 0, e |-> 0 - 2, f |-> 2],    \* 2-unit pixels
     [a |-> 1, b |-> 0, c |-> 1, d |-> 0, e |-> 0 - 1, f |-> 0],    \* shifted
     [a |-> 0, b |-> 1, c |-> 0, d |-> 1, e |-> 0, f |-> 0],        \* axes swapped
     [a |-> 0, b |-> 0, c |-> 0, d |-> 0, e |-> 0, f |-> 0]}        \* not invertible

Raster(w, h, t, grid) ==
    [kind |-> "raster", width |-> w, height |-> h, transform |-> t,
     red |-> [r \in 1..h |-> [c \in 1..w |-> grid[r][c][1]]],
     green |-> [r \in 1..h |-> [c \in 1..w |-> grid[r][c][2]]],
     blue |-> [r \in 1..h |-> [c \in 1..w |-> grid[r][c][3]]]]

Rasters ==
    UNION {{Raster(s[1], s[2], t, grid) :
               t \in Transforms, grid \in [1..s[2] -> [1..s[1] -> Pixels]]} :
           s \in Shapes}

DefRaster ==
    Raster(2, 1, [a |-> 1, b |-> 0, c |-> 0, d |-> 0, e |-> 0 - 1, f |-> 1],
           <<<<<<0, 20, 30>>, <<0, 0, 0>>>>>>)

MissingOrtho == [kind |-> "missing"]    \* os.path.exists is false
CorruptOrtho == [kind |-> "corrupt"]    \* rasterio.open or src.read raises

Limits == {None} \cup {Some(k) : k \in 0..MaxLimit}

Settings(norm, center, filter, classes, limit) ==
    [NORMALIZE_HEIGHT |-> norm,
     CENTER_COORDINATES |-> center,
     FILTER_BY_CLASSIFICATION |-> filter,
     CLASSES_TO_SHOW |-> classes,
     MAX_POINTS_VISUALIZATION |-> limit]

NoCall == [kind |-> "None", raised |-> FALSE]

\* the locals of main before its first statement
Fresh ==
    /\ las = None
    /\ ortho_data = None
    /\ available_indices = <<>>
    /\ indices = <<>>
    /\ call = NoCall
    /\ data = None
    /\ fig = None
    /\ error = "none"
    /\ completed = FALSE

\* runs on a raster: planimetry, raster and centering vary
InitRaster ==
    /\ pc = "start"
    /\ settings \in {Settings(TRUE, center, FALSE, VEGETATION_CLASSES, None) :
                        center \in BOOLEAN}
    /\ RASTERIO_AVAILABLE = TRUE
    /\ las_file \in CloudsXY
    /\ ortho_file \in {MissingOrtho, CorruptOrtho} \cup Rasters
    /\ Fresh

\* runs on heights: z, classification, filter, limit and normalization vary
InitHeight ==
    /\ pc = "start"
    /\ settings \in
         {Settings(norm, TRUE, FALSE, VEGETATION_CLASSES, limit) :
             norm \in BOOLEAN, limit \in Limits}
         \cup
         {Settings(norm, FALSE, FALSE, VEGETATION_CLASSES, None) :
             norm \in BOOLEAN}
         \cup
         {Settings(TRUE, TRUE, TRUE, classes, limit) :
             classes \in SUBSET Classes, limit \in Limits}
    /\ RASTERIO_AVAILABLE = TRUE
    /\ las_file \in CloudsZ \cup {Unreadable, MissingLas}
    /\ ortho_file \in {MissingOrtho, DefRaster}
    /\ Fresh

\* runs on embedded colours: colours, intensity and classification vary
InitRGB ==
    /\ pc = "start"
    /\ settings \in {Settings(TRUE, center, FALSE, VEGETATION_CLASSES, None) :
                        center \in BOOLEAN}
    /\ RASTERIO_AVAILABLE \in BOOLEAN
    /\ las_file \in CloudsRGB
    /\ ortho_file \in {MissingOrtho, DefRaster}
    /\ Fresh

\* a direct call of filter_points_by_classification on a loaded cloud
InitCallFilter ==
    /\ pc = "call_filter"
    /\ settings \in {Settings(TRUE, TRUE, TRUE, classes, None) :
                        classes \in (SUBSET Classes) \cup {VEGETATION_CLASSES}}
    /\ RASTERIO_AVAILABLE = TRUE
    /\ las_file \in CloudsZ
    /\ ortho_file = MissingOrtho
    /\ las = las_file
    /\ ortho_data = None
    /\ available_indices = <<>>
    /\ indices = <<>>
    /\ call = NoCall
    /\ data = None
    /\ fig = None
    /\ error = "none"
    /\ completed = FALSE

Init == InitRaster \/ InitHeight \/ InitRGB \/ InitCallFilter

(***************************************************************************)
(* main (main.py:487-551): one action per numbered step.                   *)
(***************************************************************************)
\* step 1, line 505; the except clauses of lines 543-551
LoadLas ==
    /\ pc = "start"
    /\ IF LoadRaises(las_file)
       THEN /\ pc' = "failed"
            /\ error' = IF las_file.kind = "missing"
                        THEN "FileNotFoundError" ELSE "Exception"
            /\ UNCHANGED las
       ELSE /\ pc' = "loaded"
            /\ las' = las_file
            /\ UNCHANGED error
    /\ UNCHANGED <<settings, RASTERIO_AVAILABLE, las_file, ortho_file, ortho_data,
                   available_indices, indices, call, data, fig, completed>>

\* step 2, lines 508-516
LoadOrtho ==
    /\ pc = "loaded"
    /\ ortho_data' = IF ortho_file.kind # "missing"
                     THEN load_orthophoto(ortho_file)
                     ELSE None
    /\ pc' = "ortho"
    /\ UNCHANGED <<settings, RASTERIO_AVAILABLE, las_file, ortho_file, las,
                   available_indices, indices, call, data, fig, error, completed>>

\* step 3, lines 519-522
Filter ==
    /\ pc = "ortho"
    /\ available_indices' =
         IF settings.FILTER_BY_CLASSIFICATION /\ las.has_classification
         THEN filter_points_by_classification(las, settings.CLASSES_TO_SHOW)
         ELSE Arange(las.n)
    /\ pc' = "filtered"
    /\ UNCHANGED <<settings, RASTERIO_AVAILABLE, las_file, ortho_file, las,
                   ortho_data, indices, call, data, fig, error, completed>>

\* step 4, line 525
Sample ==
    /\ pc = "filtered"
    /\ \E selected \in sample_points(available_indices,
                                     settings.MAX_POINTS_VISUALIZATION) :
          indices' = selected
    /\ pc' = "sampled"
    /\ UNCHANGED <<settings, RASTERIO_AVAILABLE, las_file, ortho_file, las,
                   ortho_data, available_indices, call, data, fig, error,
                   completed>>

\* step 5, line 528; an exception goes to the except clause of line 548
Prepare ==
    /\ pc = "sampled"
    /\ call' = prepare_point_cloud_data(las, indices, ortho_data)
    /\ data' = call'.data
    /\ pc' = IF call'.raised THEN "failed" ELSE "prepared"
    /\ error' = IF call'.raised THEN "Exception" ELSE error
    /\ UNCHANGED <<settings, RASTERIO_AVAILABLE, las_file, ortho_file, las,
                   ortho_data, available_indices, indices, fig, completed>>

\* step 6, lines 531-534
CreateFigure ==
    /\ pc = "prepared"
    /\ fig' = create_plotly_figure(data)
    /\ pc' = "figure"
    /\ UNCHANGED <<settings, RASTERIO_AVAILABLE, las_file, ortho_file, las,
                   ortho_data, available_indices, indices, call, data, error,
                   completed>>

\* step 7 and the closing message, lines 537-541
Visualize ==
    /\ pc = "figure"
    /\ completed' = TRUE
    /\ pc' = "done"
    /\ UNCHANGED <<settings, RASTERIO_AVAILABLE, las_file, ortho_file, las,
                   ortho_data, available_indices, indices, call, data, fig, error>>

\* filter_points_by_classification called on its own
CallFilter ==
    /\ pc = "call_filter"
    /\ available_indices' =
         filter_points_by_classification(las, settings.CLASSES_TO_SHOW)
    /\ pc' = "returned_filter"
    /\ UNCHANGED <<settings, RASTERIO_AVAILABLE, las_file, ortho_file, las,
                   ortho_data, indices, call, data, fig, error, completed>>

Next ==
    \/ LoadLas
    \/ LoadOrtho
    \/ Filter
    \/ Sample
    \/ Prepare
    \/ CreateFigure
    \/ Visualize
    \/ CallFilter

Spec == Init /\ [][Next]_vars

(***************************************************************************)
(* Properties.                                                             *)
(***************************************************************************)
Called == call.kind = "call"         \* prepare_point_cloud_data was called
Returned == Called /\ ~call.raised   \* and it returned a dataset

OrigX == Take(las.x, indices)
OrigY == Take(las.y, indices)
OrigZ == Take(las.z, indices)

\* C1: every call of prepare_point_cloud_data, whatever the selection (the
\* empty one included) and with or without a raster, returns a dataset whose
\* x, y, z and hover_text all have num_points = len(indices) elements.
C1_LengthsAgree ==
    Called =>
        /\ ~call.raised
        /\ data.num_points = Len(indices)
        /\ Len(data.x) = data.num_points
        /\ Len(data.y) = data.num_points
        /\ Len(data.z) = data.num_points
        /\ Len(data.hover_text) = data.num_points

\* the same for the calls that select at least one point
C1_LengthsAgree_NonEmpty ==
    (Called /\ Len(indices) > 0) =>
        /\ ~call.raised
        /\ data.num_points = Len(indices)
        /\ Len(data.x) = data.num_points
        /\ Len(data.y) = data.num_points
        /\ Len(data.z) = data.num_points
        /\ Len(data.hover_text) = data.num_points

\* C2: the colour source follows the priority raster, embedded RGB, height:
\* a loaded raster wins even over embedded RGB and then every colour is the
\* raster resolver's; a returned dataset has exactly one of colors and
\* color_array (with colorscale) populated.
C2_ColourPriority ==
    Called =>
        LET expected == IF ~IsNone(ortho_data) THEN "ortofotografia"
                        ELSE IF las.has_rgb THEN "RGB en LAS"
                        ELSE "altura"
        IN  /\ call.resolver.called <=> (expected = "ortofotografia")
            /\ ~call.raised =>
                 /\ data.color_source = expected
                 /\ expected = "ortofotografia" =>
                      /\ ~IsNone(data.colors)
                      /\ Len(data.colors.v) = Len(indices)
                      /\ \A i \in 1..Len(indices) :
                            data.colors.v[i] =
                              SampleOne(OrigX[i], OrigY[i], ortho_data).color
                 /\ expected = "RGB en LAS" =>
                      /\ ~IsNone(data.colors)
                      /\ data.colors.v = EmbeddedColors(las, indices)
                 /\ expected = "altura" => ~IsNone(data.color_array)
                 /\ IsNone(data.colors) # IsNone(data.color_array)
                 /\ IsNone(data.colorscale) = IsNone(data.color_array)

C2_Witness ==
    /\ Returned
    /\ ~IsNone(ortho_data)
    /\ las.has_rgb
    /\ data.color_source = "ortofotografia"
    /\ IsNone(data.color_array)

\* C3: the colour the raster resolver gives a point is the pixel at the
\* point's (row, col) when that cell is inside the raster and not (0,0,0),
\* and (128,128,128) when the cell is outside or the pixel is (0,0,0); two
\* points with the same coordinates get the same colour.
C3_ResolverColour ==
    (Returned /\ call.resolver.called) =>
        /\ Len(data.colors.v) = Len(call.resolver.x)
        /\ \A i \in 1..Len(call.resolver.x) :
              LET rc == rowcol(ortho_data.transform,
                               call.resolver.x[i], call.resolver.y[i])
                  inside == /\ 0 <= rc.row /\ rc.row < ortho_data.height
                            /\ 0 <= rc.col /\ rc.col < ortho_data.width
                  pixel == <<At(At(ortho_data.red, rc.row), rc.col),
                             At(At(ortho_data.green, rc.row), rc.col),
                             At(At(ortho_data.blue, rc.row), rc.col)>>
              IN  ~rc.raised =>
                     IF inside /\ pixel # <<0, 0, 0>>
                     THEN data.colors.v[i] = pixel
                     ELSE data.colors.v[i] = Gray
        /\ \A i, j \in 1..Len(call.resolver.x) :
              (/\ call.resolver.x[i] = call.resolver.x[j]
               /\ call.resolver.y[i] = call.resolver.y[j])
              => data.colors.v[i] = data.colors.v[j]

C3_Witness ==
    /\ Returned
    /\ call.resolver.called
    /\ \E i, j, k \in 1..Len(indices) :
          /\ data.colors.v[i] = <<0, 20, 30>>
          /\ LET rc == rowcol(ortho_data.transform, OrigX[j], OrigY[j])
             IN  ~rc.raised /\ (rc.col >= ortho_data.width \/ rc.col < 0)
          /\ LET rc == rowcol(ortho_data.transform, OrigX[k], OrigY[k])
             IN  /\ ~rc.raised
                 /\ 0 <= rc.row /\ rc.row < ortho_data.height
                 /\ 0 <= rc.col /\ rc.col < ortho_data.width
                 /\ At(At(ortho_data.red, rc.row), rc.col) = 0
                 /\ At(At(ortho_data.green, rc.row), rc.col) = 0
                 /\ At(At(ortho_data.blue, rc.row), rc.col) = 0

\* C4: with a raster and centering enabled, the raster resolver is given the
\* original world x, y of the selected points; the centre is subtracted
\* only in the coordinates placed in the dataset, whose colours are those of
\* the original coordinates.
C4_ResolverSeesWorldXY ==
    (Called /\ call.resolver.called /\ settings.CENTER_COORDINATES) =>
        /\ call.resolver.x = OrigX
        /\ call.resolver.y = OrigY
        /\ ~call.raised =>
             \A i \in 1..Len(indices) :
                /\ RatEq(data.x[i],
                         Rat(Len(indices) * OrigX[i] - SumSeq(OrigX), Len(indices)))
                /\ RatEq(data.y[i],
                         Rat(Len(indices) * OrigY[i] - SumSeq(OrigY), Len(indices)))
                /\ data.colors.v[i] =
                     SampleOne(OrigX[i], OrigY[i], ortho_data).color

C4_Witness ==
    /\ Returned
    /\ call.resolver.called
    /\ settings.CENTER_COORDINATES
    /\ \E i \in 1..Len(indices) :
          /\ data.x[i].num # data.x[i].den * OrigX[i]
          /\ data.colors.v[i] # Gray

\* the selected points of the ground class, as positions of indices
SelectedGround ==
    {i \in 1..Len(indices) : At(las.classification, indices[i]) = GROUND_CLASS}

\* C5 as stated: with normalize-height on, classification present and a
\* ground point among the selected points, one elevation is subtracted from
\* every selected z and the lowest selected ground point ends at z = 0.
C5_SelectedGroundAtZero ==
    (/\ Called
     /\ settings.NORMALIZE_HEIGHT
     /\ las.has_classification
     /\ SelectedGround # {})
    => /\ ~call.raised
       /\ \A i, j \in 1..Len(indices) :
             OrigZ[i] - data.z[i] = OrigZ[j] - data.z[j]
       /\ MinOf({data.z[i] : i \in SelectedGround}) = 0

\* C5 amended: the elevation subtracted from every selected z is the lowest
\* z of the ground points of the whole cloud; the lowest selected ground
\* point ends at z >= 0, and at 0 exactly when the selection holds a ground
\* point of that lowest z (as it does when every point is selected).
C5_CloudGroundSubtracted ==
    (/\ Called
     /\ settings.NORMALIZE_HEIGHT
     /\ las.has_classification
     /\ SelectedGround # {})
    => LET ground == {i \in 1..las.n : las.classification[i] = GROUND_CLASS}
           lowest == MinOf({las.z[i] : i \in ground})
           low_out == MinOf({data.z[i] : i \in SelectedGround})
       IN  /\ ~call.raised
           /\ \A i \in 1..Len(indices) : data.z[i] = OrigZ[i] - lowest
           /\ low_out >= 0
           /\ low_out = 0 <=> \E i \in SelectedGround : OrigZ[i] = lowest
           /\ Range(indices) = 0..(las.n - 1) => low_out = 0

C5_Witness ==
    /\ Returned
    /\ settings.NORMALIZE_HEIGHT
    /\ las.has_classification
    /\ SelectedGround # {}
    /\ \E i \in 1..Len(indices) : i \notin SelectedGround /\ data.z[i] = OrigZ[i] - 10
    /\ MinOf({data.z[i] : i \in SelectedGround}) = 2

\* sample_points has returned
Sampled ==
    \/ pc \in {"sampled", "prepared", "figure", "done"}
    \/ pc = "failed" /\ Called

\* C6: sample_points returns the candidate itself when the limit is unset
\* or the candidate has at most M elements; otherwise exactly M elements,
\* all of the candidate, none twice.
C6_SampleWithinBudget ==
    Sampled =>
        LET M == settings.MAX_POINTS_VISUALIZATION
        IN  IF IsNone(M) \/ Len(available_indices) <= M.v
            THEN indices = available_indices
            ELSE /\ Len(indices) = M.v
                 /\ \A i \in 1..Len(indices) : indices[i] \in Range(available_indices)
                 /\ \A i, j \in 1..Len(indices) : i # j => indices[i] # indices[j]

C6_Witness ==
    /\ Sampled
    /\ ~IsNone(settings.MAX_POINTS_VISUALIZATION)
    /\ settings.MAX_POINTS_VISUALIZATION.v = 2
    /\ Len(available_indices) = 3
    /\ Len(indices) = 2
    /\ indices[1] > indices[2]

\* C7: filter_points_by_classification returns every index when the cloud
\* has no classification; otherwise exactly the positions whose class is
\* requested, in increasing order (none for an empty request); a request
\* contained in another gives a result contained in the other's.
C7_FilterByClass ==
    pc = "returned_filter" =>
        LET requested == settings.CLASSES_TO_SHOW
            result == available_indices
        IN  /\ Range(result) \subseteq 0..(las.n - 1)
            /\ ~las.has_classification => result = Arange(las.n)
            /\ las.has_classification =>
                 /\ Range(result) =
                      {i \in 0..(las.n - 1) : At(las.classification, i) \in requested}
                 /\ \A i, j \in 1..Len(result) : i < j => result[i] < result[j]
                 /\ requested = {} => result = <<>>
            /\ \A smaller \in SUBSET requested :
                  Range(filter_points_by_classification(las, smaller))
                      \subseteq Range(result)

C7_Witness ==
    /\ pc = "returned_filter"
    /\ las.has_classification
    /\ Len(available_indices) = 2
    /\ las.n = 3
    /\ available_indices[1] = 0
    /\ available_indices[2] = 2

\* C8 as stated: with centering on, what prepare_point_cloud_data returns
\* retains the offsets x_center and y_center, the means of the original x
\* and y of the selected points.
C8_OffsetsReturned ==
    (Returned /\ settings.CENTER_COORDINATES) =>
        /\ "x_center" \in DOMAIN data
        /\ "y_center" \in DOMAIN data

\* C8 amended: with centering on, the call computes x_center and y_center as
\* the means of the original x and y of the selected points, and output x +
\* x_center, output y + y_center are the original coordinates of every
\* output point; the offsets stay locals of the call (they are printed) and
\* the returned dataset has no entry for them.
C8_OffsetsLocal ==
    (Returned /\ settings.CENTER_COORDINATES) =>
        /\ RatEq(call.x_center, Rat(SumSeq(OrigX), Len(indices)))
        /\ RatEq(call.y_center, Rat(SumSeq(OrigY), Len(indices)))
        /\ \A i \in 1..Len(indices) :
              /\ RatEq(RatSub(Rat(OrigX[i], 1), call.x_center), data.x[i])
              /\ RatEq(RatSub(Rat(OrigY[i], 1), call.y_center), data.y[i])
              /\ data.x[i].den # 0 /\ data.y[i].den # 0
        /\ DOMAIN data = {"kind", "x", "y", "z", "colors", "color_array",
                          "colorscale", "hover_text", "num_points",
                          "color_source"}

C8_Witness ==
    /\ Returned
    /\ settings.CENTER_COORDINATES
    /\ Len(indices) = 3
    /\ call.x_center.num = 2 /\ call.x_center.den = 3
    /\ \E i \in 1..Len(indices) : RatEq(data.x[i], Rat(1, 3))

\* the orthophoto is missing or cannot be loaded
NoRaster == ortho_file.kind \in {"missing", "corrupt"} \/ ~RASTERIO_AVAILABLE

\* the point-cloud file cannot be read
NoCloud == las_file.kind \in {"missing", "unreadable"}

InMain == pc \notin {"call_filter", "returned_filter"}

\* C9: in main, a raster that is missing or fails to load never stops the
\* run: every step up to the call of prepare_point_cloud_data can be taken,
\* with ortho_data = None, the run fails no earlier than in that call, and
\* the call colours by embedded RGB or height. An unreadable point cloud stops it:
\* no filter, sample, prepare or render step runs and no successful
\* completion is reported.
C9_RasterOptionalCloudRequired ==
    InMain =>
        /\ (NoRaster /\ ~NoCloud) =>
             /\ pc = "start" => ENABLED LoadLas
             /\ pc = "loaded" => ENABLED LoadOrtho
             /\ pc = "ortho" => ENABLED Filter
             /\ pc = "filtered" => ENABLED Sample
             /\ pc \notin {"start", "loaded"} => IsNone(ortho_data)
             /\ (pc = "failed") => Called
             /\ Called => ~call.resolver.called
             /\ Returned => data.color_source \in {"RGB en LAS", "altura"}
        /\ (NoCloud /\ pc # "start") =>
             /\ pc = "failed"
             /\ error \in {"FileNotFoundError", "Exception"}
             /\ IsNone(las)
             /\ available_indices = <<>>
             /\ indices = <<>>
             /\ ~Called
             /\ IsNone(data)
             /\ IsNone(fig)
             /\ ~completed

C9_Witness ==
    /\ InMain
    /\ ortho_file.kind = "corrupt"
    /\ RASTERIO_AVAILABLE
    /\ pc = "done"
    /\ completed
    /\ data.color_source = "RGB en LAS"

C9_WitnessNoCloud ==
    /\ InMain
    /\ NoCloud
    /\ pc = "failed"

\* C10: with normalize-height on, when the cloud has no classification or no
\* point of the ground class, prepare_point_cloud_data raises no error and
\* every selected point keeps its input z.
C10_NoGroundKeepsZ ==
    (/\ Called
     /\ settings.NORMALIZE_HEIGHT
     /\ \/ ~las.has_classification
        \/ \A i \in 1..las.n : las.classification[i] # GROUND_CLASS)
    => /\ ~call.raised
       /\ data.z = OrigZ

\* the same for the calls that select at least one point
C10_NoGroundKeepsZ_NonEmpty ==
    (/\ Called
     /\ Len(indices) > 0
     /\ settings.NORMALIZE_HEIGHT
     /\ \/ ~las.has_classification
        \/ \A i \in 1..las.n : las.classification[i] # GROUND_CLASS)
    => /\ ~call.raised
       /\ data.z = OrigZ

\* the raster resolver was called and did not raise
ResolverReturned == Called /\ call.resolver.called /\ call.exc # "ZeroDivisionError"

\* C11: for every batch of points given to the raster resolver, the empty
\* batch included, the resolver completes, returns one colour per point,
\* and its valid count is the number of returned colours that are not
\* (128,128,128), so that valid count + gray count = number of points.
C11_ResolverCounts ==
    (Called /\ call.resolver.called) =>
        /\ call.exc # "ZeroDivisionError"
        /\ Len(data.colors.v) = Len(call.resolver.x)
        /\ call.resolver.valid_colors =
             Cardinality({i \in 1..Len(data.colors.v) : data.colors.v[i] # Gray})

\* the resolver raises on an empty batch and on no other
C11_RaisesOnEmptyOnly ==
    (Called /\ call.resolver.called) =>
        (call.exc = "ZeroDivisionError" <=> Len(call.resolver.x) = 0)

\* on a batch that is not empty there is one colour per point, and the
\* valid count is the number of points whose cell is inside the raster and
\* not (0,0,0); a pixel that is (128,128,128) itself counts as valid
C11_CountsSampledPixels ==
    (ResolverReturned /\ Len(call.resolver.x) > 0) =>
        /\ Returned
        /\ Len(data.colors.v) = Len(call.resolver.x)
        /\ call.resolver.valid_colors =
             Cardinality({i \in 1..Len(call.resolver.x) :
                LET rc == rowcol(ortho_data.transform,
                                 call.resolver.x[i], call.resolver.y[i])
                IN  /\ ~rc.raised
                    /\ 0 <= rc.row /\ rc.row < ortho_data.height
                    /\ 0 <= rc.col /\ rc.col < ortho_data.width
                    /\ <<At(At(ortho_data.red, rc.row), rc.col),
                         At(At(ortho_data.green, rc.row), rc.col),
                         At(At(ortho_data.blue, rc.row), rc.col)>> # <<0, 0, 0>>})
        /\ call.resolver.valid_colors >=
             Cardinality({i \in 1..Len(data.colors.v) : data.colors.v[i] # Gray})

\* the valid count of C11 on the batches that are not empty
C11_CountsNonGray_NonEmpty ==
    (ResolverReturned /\ Len(call.resolver.x) > 0) =>
        call.resolver.valid_colors =
          Cardinality({i \in 1..Len(data.colors.v) : data.colors.v[i] # Gray})

\* the lowest z among the ground points of the whole cloud, from the
\* cloud as it was loaded
CloudGroundMin ==
    MinOf({las.z[i] : i \in {j \in 1..las.n : las.classification[j] = GROUND_CLASS}})

\* the cloud carries classes and at least one ground point
CloudHasGround ==
    /\ las.has_classification
    /\ \E i \in 1..las.n : las.classification[i] = GROUND_CLASS

\* the normalization of lines 282-287 changes z in this run
NormalizationApplied == settings.NORMALIZE_HEIGHT /\ CloudHasGround

\* the call returned a dataset coloured by height
ByHeight == Returned /\ data.color_source = "altura"

\* C12: when the colour source is height, the scalar colour value of each
\* selected point is that point's output z, the z after the height
\* normalization; it is the z read from the file exactly when no
\* normalization was applied, and it is the same with XY centering on or
\* off (the value is fixed by z and the ground elevation alone).
C12_HeightColourIsOutputZ ==
    ByHeight =>
        LET shift == IF NormalizationApplied THEN CloudGroundMin ELSE 0
            raw == OrigZ
        IN  /\ ~IsNone(data.color_array)
            /\ data.color_array.v = data.z
            /\ Len(data.color_array.v) = Len(indices)
            /\ \A i \in 1..Len(indices) : data.color_array.v[i] = raw[i] - shift
            /\ ~NormalizationApplied => data.color_array.v = raw
            /\ IsNone(data.colors)
            /\ data.colorscale = Some(HEIGHT_COLORMAP)

\* height colours of a normalized run, with centering on and a centre
\* that is not the origin: the colour value differs from the z read
C12_Witness ==
    /\ ByHeight
    /\ NormalizationApplied
    /\ settings.CENTER_COORDINATES
    /\ ~RatEq(call.x_center, Rat(0, 1))
    /\ Len(indices) >= 2
    /\ data.color_array.v # OrigZ

\* height colours with centering off
C12_WitnessUncentered ==
    /\ ByHeight
    /\ ~settings.CENTER_COORDINATES
    /\ Len(indices) >= 2
    /\ \E i, j \in 1..Len(indices) : data.color_array.v[i] # data.color_array.v[j]

\* height colours of a cloud without classes: the z read, unchanged
C12_WitnessRaw ==
    /\ ByHeight
    /\ ~las.has_classification
    /\ settings.NORMALIZE_HEIGHT
    /\ Len(indices) = MaxPointsZ
    /\ data.color_array.v = OrigZ

\* every selection main could pass for the loaded cloud, up to two points
OtherSelections ==
    UNION {[1..k -> 0..(las.n - 1)] : k \in 0..2}

\* C13: the ground elevation subtracted by prepare_point_cloud_data is the
\* lowest z over the ground points of the whole loaded cloud, whatever
\* indices the filter and the sample selected: every selected z is shifted
\* by it, any other selection of the same cloud is shifted by the same
\* amount, and z is shifted also when no selected point is a ground point.
C13_GroundOfWholeCloud ==
    (Called /\ NormalizationApplied) =>
        LET lowest == CloudGroundMin
            raw == OrigZ
        IN  /\ call.ground_elevation = lowest
            /\ Returned => \A i \in 1..Len(indices) : raw[i] - data.z[i] = lowest
            /\ \A other \in OtherSelections :
                  LET shifted == NormalizedZ(las, other)
                  IN  \A k \in 1..Len(other) :
                         At(las.z, other[k]) - shifted[k] = lowest
            /\ (Returned /\ SelectedGround = {}) =>
                  \A i \in 1..Len(indices) : data.z[i] = raw[i] - lowest

\* a returned run whose selection holds no ground point and whose z was
\* shifted by the ground elevation of the cloud all the same
C13_Witness ==
    /\ Returned
    /\ NormalizationApplied
    /\ Len(indices) >= 1
    /\ SelectedGround = {}
    /\ call.ground_elevation > 0
    /\ \A i \in 1..Len(indices) : data.z[i] = OrigZ[i] - call.ground_elevation
    /\ data.z # OrigZ

\* a returned run whose selection holds a ground point, but not the lowest
\* one of the cloud: the shift is still the lowest ground z of the cloud
C13_WitnessHigherGround ==
    /\ Returned
    /\ NormalizationApplied
    /\ SelectedGround # {}
    /\ MinOf({OrigZ[i] : i \in SelectedGround}) > CloudGroundMin
    /\ \A i \in 1..Len(indices) : OrigZ[i] - data.z[i] = CloudGroundMin

====
